---------------------------- MODULE Spec2Model ----------------------------
(***************************************************************************)
(* surveysim: the nightly observability planner (afternoonplan.py,         *)
(* class surveyPlan) and the weather simulator (weather.py, class          *)
(* Weather).                                                               *)
(*                                                                         *)
(* Units.  Angles (RA, DEC, HA, LST, altitude) are whole degrees.  The     *)
(* MJD values of a night are whole ticks, the negative sentinel is -1.     *)
(* MoonFrac is in percent, so  MoonFrac < 0.2  reads  MoonFrac < 20  and   *)
(* alt * MoonFrac < 12.0  reads  alt * MoonFrac < 1200.                    *)
(* Weather times are whole ticks, TicksPerStep of them to one time step.   *)
(***************************************************************************)
EXTENDS Integers, Sequences, FiniteSets, TLC

VARIABLES
    \* ---- surveyPlan ----
    tiledata,          \* rows of data/desi-tiles.fits
    pc,                \* "new" before surveyPlan.__init__, "ready" after it,
                       \* "planned" once afternoonPlan has been called
    tileID, LSTmin, LSTmax, priority, program, status,
    moonUp,
    LST_dark1_begin, LST_dark1_end, LST_dark2_begin, LST_dark2_end,
    LST_dark_begin, LST_dark_end,   \* attributes the last branch of getDarkTimes creates
    day_stats,         \* argument of the last afternoonPlan call
    tiles_observed,    \* argument of the last afternoonPlan call
    planList,          \* table written by the last afternoonPlan call
    tilesTODO,         \* count returned by the last afternoonPlan call
    \* ---- Weather ----
    wpc,               \* "new" before Weather.__init__, "ready" after
    wargs,             \* arguments of Weather.__init__
    table,             \* Weather._table
    steps_per_day,     \* Weather.steps_per_day
    time,              \* argument of the last Weather.get call
    outcome,           \* how the last Weather.get call ended
    rows               \* rows returned by the last Weather.get call

vars == <<tiledata, pc, tileID, LSTmin, LSTmax, priority, program, status,
          moonUp, LST_dark1_begin, LST_dark1_end, LST_dark2_begin, LST_dark2_end,
          LST_dark_begin, LST_dark_end, day_stats, tiles_observed, planList,
          tilesTODO, wpc, wargs, table, steps_per_day, time, outcome, rows>>

planVars == <<tiledata, pc, tileID, LSTmin, LSTmax, priority, program, status,
              moonUp, LST_dark1_begin, LST_dark1_end, LST_dark2_begin, LST_dark2_end,
              LST_dark_begin, LST_dark_end, day_stats, tiles_observed, planList,
              tilesTODO>>

weatherVars == <<wpc, wargs, table, steps_per_day, time, outcome, rows>>

\* LST_dark_begin and LST_dark_end hold a set: empty while the attribute does not
\* exist, {v} once it has been assigned v.
NoAttr == {}

-----------------------------------------------------------------------------
(***************************************************************************)
(* Bounds and input sets                                                   *)
(***************************************************************************)
\* MJD values of a night are -1 (the sentinel) or 1 .. MaxMJD.
MaxMJD == 5

\* Longest observation log (tiles_observed) of the log specification.
MaxLog == 2

\* Most nights of a generated weather table.
MaxNights == 2

\* Resolution of weather query times: ticks in one time step.
TicksPerStep == 3

-----------------------------------------------------------------------------
(***************************************************************************)
(* surveysim.utils (not part of the planner's file)                        *)
(***************************************************************************)
\* mjd2lst: MJD -> LST in degrees, in [0, 360).  One tick of MJD turns the
\* sky by 30 degrees.
mjd2lst(mjd) == (30 * mjd) % 360

-----------------------------------------------------------------------------
(***************************************************************************)
(* surveyPlan.__init__                                                     *)
(***************************************************************************)
\* numpy compress((InDESI==1).flat): the rows with IN_DESI = 1, in order.
compress(data) == SelectSeq(data, LAMBDA r : r.IN_DESI = 1)

\* Lines 61-65 and 67-71: one wrap step of an LST bound.
wrapLST(lst) ==
    IF lst < 0 THEN lst + 360
    ELSE IF lst > 360 THEN lst - 360
    ELSE lst

\* Lines 76-94: priority as a function of DEC.
priorityOfDec(dec) ==
    IF dec <= -15 THEN 1
    ELSE IF dec > -15 /\ dec <= 0 THEN 2
    ELSE IF dec > 0 /\ dec <= 15 THEN 3
    ELSE IF dec > 15 /\ dec <= 30 THEN 4
    ELSE IF dec > 30 /\ dec <= 45 THEN 5
    ELSE IF dec > 45 /\ dec <= 60 THEN 6
    ELSE IF dec > 60 /\ dec < 75 THEN 7
    ELSE 8

surveyPlanInit ==
    /\ pc = "new"
    /\ LET kept == compress(tiledata)
           n == Len(kept)
       IN /\ tileID' = [i \in 1..n |-> kept[i].TILEID]
          /\ program' = [i \in 1..n |-> kept[i].PROGRAM]
          /\ LSTmin' = [i \in 1..n |-> wrapLST((kept[i].RA + kept[i].HA) - 15)]
          /\ LSTmax' = [i \in 1..n |-> wrapLST((kept[i].RA + kept[i].HA) + 15)]
          /\ status' = [i \in 1..n |-> 0]
          /\ priority' = [i \in 1..n |-> priorityOfDec(kept[i].DEC)]
    /\ moonUp' = "BRIGHT"
    /\ LST_dark1_begin' = -1
    /\ LST_dark1_end' = -1
    /\ LST_dark2_begin' = -1
    /\ LST_dark2_end' = -1
    /\ pc' = "ready"
    /\ UNCHANGED <<tiledata, LST_dark_begin, LST_dark_end, day_stats,
                   tiles_observed, planList, tilesTODO>>
    /\ UNCHANGED weatherVars

-----------------------------------------------------------------------------
(***************************************************************************)
(* surveyPlan.isItDark, surveyPlan.getDarkTimes                            *)
(***************************************************************************)
\* The night-scoped attributes of the planner, as one record.
self ==
    [moonUp |-> moonUp,
     LST_dark1_begin |-> LST_dark1_begin, LST_dark1_end |-> LST_dark1_end,
     LST_dark2_begin |-> LST_dark2_begin, LST_dark2_end |-> LST_dark2_end,
     LST_dark_begin |-> LST_dark_begin, LST_dark_end |-> LST_dark_end]

\* The same attributes right after surveyPlan.__init__ (lines 96-101).
newSelf ==
    [moonUp |-> "BRIGHT",
     LST_dark1_begin |-> -1, LST_dark1_end |-> -1,
     LST_dark2_begin |-> -1, LST_dark2_end |-> -1,
     LST_dark_begin |-> NoAttr, LST_dark_end |-> NoAttr]

isItDark(s, lst) ==
    IF \/ (s.LST_dark1_begin > 0 /\ s.LST_dark1_begin < lst /\
           s.LST_dark1_end > 0 /\ lst < s.LST_dark1_end)
       \/ (s.LST_dark2_begin > 0 /\ s.LST_dark2_begin < lst /\
           s.LST_dark2_end > 0 /\ lst < s.LST_dark2_end)
    THEN "DARK"
    ELSE s.moonUp

\* Lines 116-151: the dark windows.  The conditions are the source's, as written.
darkWindows(s, d) ==
    LET s0 == [s EXCEPT !.LST_dark2_begin = -1, !.LST_dark2_end = -1]
    IN
    IF d.MJDmoonrise > 0 /\ d.MJDmoonrise > 0 THEN
        IF d.MJDmoonrise < d.MJDetwi THEN
            IF d.MJDmoonset < d.MJDmtwi THEN
                [s0 EXCEPT !.LST_dark1_begin = mjd2lst(d.MJDmoonset),
                           !.LST_dark1_end = mjd2lst(d.MJDmtwi)]
            ELSE
                [s0 EXCEPT !.LST_dark1_begin = -1, !.LST_dark1_end = -1]
        ELSE
            IF d.MJDmoonrise < d.MJDmtwi THEN
                IF d.MJDmoonset < d.MJDmtwi THEN
                    [s0 EXCEPT !.LST_dark1_begin = mjd2lst(d.MJDetwi),
                               !.LST_dark1_end = mjd2lst(d.MJDmoonrise),
                               !.LST_dark2_begin = mjd2lst(d.MJDmoonset),
                               !.LST_dark2_end = mjd2lst(d.MJDmtwi)]
                ELSE
                    [s0 EXCEPT !.LST_dark1_begin = mjd2lst(d.MJDetwi),
                               !.LST_dark1_end = mjd2lst(d.MJDmoonrise)]
            ELSE
                [s0 EXCEPT !.LST_dark1_begin = mjd2lst(d.MJDetwi),
                           !.LST_dark1_end = mjd2lst(d.MJDmtwi)]
    ELSE IF d.MJDmoonrise > 0 /\ d.MJDmoonrise < 0 THEN
        IF d.MJDmoonrise < d.MJDetwi THEN
            [s0 EXCEPT !.LST_dark1_begin = -1, !.LST_dark1_end = -1]
        ELSE
            [s0 EXCEPT !.LST_dark1_begin = d.MJDetwi,
                       !.LST_dark1_end = mjd2lst(d.MJDmoonrise)]
    ELSE IF d.MJDmoonrise < 0 /\ d.MJDmoonrise > 0 THEN
        IF d.MJDmoonset > 0 /\ d.MJDmoonset < d.MJDmtwi THEN
            [s0 EXCEPT !.LST_dark1_begin = mjd2lst(d.MJDmoonset),
                       !.LST_dark1_end = mjd2lst(d.MJDmtwi)]
        ELSE
            [s0 EXCEPT !.LST_dark1_begin = -1, !.LST_dark1_end = -1]
    ELSE
        [s0 EXCEPT !.LST_dark_begin = {mjd2lst(d.MJDetwi)},
                   !.LST_dark_end = {mjd2lst(d.MJDmtwi)}]

\* Lines 154-158: grey or bright outside the dark windows.  d.MoonAlt is the
\* altitude radec2altaz returns for the night's MoonRA, MoonDEC and midnight LST.
moonClass(d) ==
    IF d.MoonFrac < 20 \/ (d.MoonAlt * d.MoonFrac < 1200) THEN "GREY" ELSE "BRIGHT"

getDarkTimes(s, d) == [darkWindows(s, d) EXCEPT !.moonUp = moonClass(d)]

-----------------------------------------------------------------------------
(***************************************************************************)
(* surveyPlan.afternoonPlan                                                *)
(***************************************************************************)
\* A slip: the assignment reaches every tile, whatever the id.
setStatusAll(st, id, value) == [j \in DOMAIN st |-> value]

\* Line 171-172: status[np.where(tileID == id)] = value.
setStatus(st, id, value) ==
    [j \in DOMAIN st |-> IF tileID[j] = id THEN value ELSE st[j]]

\* A slip: the log is walked from its end, so the first entry of a tile wins.
RECURSIVE updateStatusReversed(_, _, _)
updateStatusReversed(st, log, i) ==
    IF i > Len(log) THEN st
    ELSE [j \in DOMAIN st |->
            IF tileID[j] = log[i].TILEID THEN log[i].STATUS
            ELSE updateStatusReversed(st, log, i + 1)[j]]

\* Lines 169-172: the entries of the log, in list order, from entry i on.
RECURSIVE updateStatus(_, _, _)
updateStatus(st, log, i) ==
    IF i > Len(log) THEN st
    ELSE updateStatus(setStatus(st, log[i].TILEID, log[i].STATUS), log, i + 1)

\* A slip: the status test is left out.
eligibleAnyStatus(s, st, i) ==
    \/ (isItDark(s, LSTmin[i]) = "DARK" /\ isItDark(s, LSTmax[i]) = "DARK" /\
        program[i] = "DARK")
    \/ ((isItDark(s, LSTmin[i]) /= "DARK" \/ isItDark(s, LSTmax[i]) /= "DARK") /\
        program[i] /= "DARK")

\* A slip: a DARK tile passes with either bound dark.
eligibleDarkEither(s, st, i) ==
    /\ st[i] < 2
    /\ \/ ((isItDark(s, LSTmin[i]) = "DARK" \/ isItDark(s, LSTmax[i]) = "DARK") /\
           program[i] = "DARK")
       \/ ((isItDark(s, LSTmin[i]) /= "DARK" \/ isItDark(s, LSTmax[i]) /= "DARK") /\
           program[i] /= "DARK")

\* Lines 178-180: the condition under which tile i joins planList0.
eligible(s, st, i) ==
    /\ st[i] < 2
    /\ \/ (isItDark(s, LSTmin[i]) = "DARK" /\ isItDark(s, LSTmax[i]) = "DARK" /\
           program[i] = "DARK")
       \/ ((isItDark(s, LSTmin[i]) /= "DARK" \/ isItDark(s, LSTmax[i]) /= "DARK") /\
           program[i] /= "DARK")

\* Lines 181-182: the plan's row of tile i.
planRow(st, i) ==
    [TILEID |-> tileID[i], LSTMIN |-> LSTmin[i], LSTMAX |-> LSTmax[i],
     PRIORITY |-> priority[i], STATUS |-> st[i], PROGRAM |-> program[i]]

\* Lines 175-182: planList0, the loop over the tiles from tile i on.
RECURSIVE planList0(_, _, _)
planList0(s, st, i) ==
    IF i > Len(tileID) THEN <<>>
    ELSE IF eligible(s, st, i) THEN <<planRow(st, i)>> \o planList0(s, st, i + 1)
    ELSE planList0(s, st, i + 1)

\* A slip: reverse=True is left out, the rows come in ascending order.
RECURSIVE insertRowAscending(_, _)
insertRowAscending(r, sortedRows) ==
    IF sortedRows = <<>> THEN <<r>>
    ELSE IF Head(sortedRows).PRIORITY <= r.PRIORITY
         THEN <<Head(sortedRows)>> \o insertRowAscending(r, Tail(sortedRows))
         ELSE <<r>> \o sortedRows

\* sorted(..., reverse=True) is stable: row r goes behind every row whose key is
\* at least its own.
RECURSIVE insertRow(_, _)
insertRow(r, sortedRows) ==
    IF sortedRows = <<>> THEN <<r>>
    ELSE IF Head(sortedRows).PRIORITY >= r.PRIORITY
         THEN <<Head(sortedRows)>> \o insertRow(r, Tail(sortedRows))
         ELSE <<r>> \o sortedRows

\* Line 184: sorted(planList0, key=itemgetter(7), reverse=True).
RECURSIVE sortedByPriority(_)
sortedByPriority(list) ==
    IF list = <<>> THEN <<>>
    ELSE insertRow(list[Len(list)], sortedByPriority(SubSeq(list, 1, Len(list) - 1)))

afternoonPlan(d, log) ==
    /\ pc \in {"ready", "planned"}
    /\ LET st == updateStatus(status, log, 1)
           s == getDarkTimes(self, d)
           plan == sortedByPriority(planList0(s, st, 1))
       IN /\ status' = st
          /\ moonUp' = s.moonUp
          /\ LST_dark1_begin' = s.LST_dark1_begin
          /\ LST_dark1_end' = s.LST_dark1_end
          /\ LST_dark2_begin' = s.LST_dark2_begin
          /\ LST_dark2_end' = s.LST_dark2_end
          /\ LST_dark_begin' = s.LST_dark_begin
          /\ LST_dark_end' = s.LST_dark_end
          /\ planList' = plan
          /\ tilesTODO' = Len(plan)
    /\ day_stats' = d
    /\ tiles_observed' = log
    /\ pc' = "planned"
    /\ UNCHANGED <<tiledata, tileID, LSTmin, LSTmax, priority, program>>
    /\ UNCHANGED weatherVars

-----------------------------------------------------------------------------
(***************************************************************************)
(* Weather.__init__ (the generate mode), Weather.get                       *)
(***************************************************************************)
\* Ticks in one day when the day has spd time steps.
ticksPerDay(spd) == spd * TicksPerStep

\* Lines 88-90: mjd of row i (counted from 0), t0 + (i / steps_per_day) days.
rowMjd(t0, i, spd) == t0 + (i * ticksPerDay(spd)) \div spd

\* Lines 97-102: the dome is closed for the whole of a night the draw closes.
rowOpen(i, spd, closed) == ~((i \div spd) + 1 \in closed)

WeatherInit ==
    /\ wpc = "new"
    /\ IF wargs.num_nights <= 0
       THEN /\ wpc' = "ValueError"
            /\ UNCHANGED <<table, steps_per_day>>
       ELSE LET num_rows == wargs.num_nights * wargs.steps_per_day
            IN /\ table' = [r \in 1..num_rows |->
                              [mjd |-> rowMjd(wargs.t0, r - 1, wargs.steps_per_day),
                               open |-> rowOpen(r - 1, wargs.steps_per_day, wargs.closed)]]
               /\ steps_per_day' = wargs.steps_per_day
               /\ wpc' = "ready"
    /\ UNCHANGED <<wargs, time, outcome, rows>>
    /\ UNCHANGED planVars

\* A slip: the 0.5 is left out, the index is rounded down.
offsetFloor(t) ==
    ((t - table[1].mjd) * steps_per_day) \div ticksPerDay(steps_per_day)

\* Lines 155-157: floor((t - mjd[0]) * steps_per_day + 0.5), t and mjd in ticks.
offset(t) ==
    (2 * (t - table[1].mjd) * steps_per_day + ticksPerDay(steps_per_day))
        \div (2 * ticksPerDay(steps_per_day))

\* Line 158: the range test.
beyondRange(offsets) ==
    \/ \E k \in DOMAIN offsets : offsets[k] < 0
    \/ \E k \in DOMAIN offsets : offsets[k] > Len(table)

\* Line 160: table[offset]; an index that is no row's raises IndexError.
get(t) ==
    /\ wpc = "ready"
    /\ LET offsets == [k \in DOMAIN t |-> offset(t[k])]
       IN IF beyondRange(offsets)
          THEN outcome' = "ValueError" /\ rows' = <<>>
          ELSE IF \E k \in DOMAIN offsets : offsets[k] >= Len(table)
          THEN outcome' = "IndexError" /\ rows' = <<>>
          ELSE outcome' = "rows" /\ rows' = [k \in DOMAIN t |-> table[offsets[k] + 1]]
    /\ time' = t
    /\ UNCHANGED <<wpc, wargs, table, steps_per_day>>
    /\ UNCHANGED planVars

-----------------------------------------------------------------------------
(***************************************************************************)
(* Inputs                                                                  *)
(***************************************************************************)
MJDs == {-1} \cup (1..MaxMJD)

\* (MoonFrac, MoonAlt): grey by the fraction, grey by the product, bright.
Moons == {<<10, 40>>, <<50, 10>>, <<50, 40>>}

\* Every night: twilight at ticks 2 and MaxMJD - 1, the moon's rise and set
\* anywhere or absent.
NightStats ==
    {[MJDmoonrise |-> r, MJDmoonset |-> s, MJDetwi |-> 2, MJDmtwi |-> MaxMJD - 1,
      MoonFrac |-> m[1], MoonAlt |-> m[2]] : r \in MJDs, s \in MJDs, m \in Moons}

\* The night of the log specification: the moon rises after morning twilight,
\* the whole night is dark.
LogNights ==
    {d \in NightStats : /\ d.MJDmoonrise = MaxMJD
                        /\ d.MJDmoonset = -1
                        /\ d.MoonFrac = 50 /\ d.MoonAlt = 40}

tile(id, ra, ha, dec, prog, in) ==
    [TILEID |-> id, RA |-> ra, HA |-> ha, DEC |-> dec, PROGRAM |-> prog, IN_DESI |-> in]

\* Tile files of the planning specifications.
CatalogA ==
    << tile(1, 90, 0, 20, "DARK", 1), tile(2, 100, -10, 50, "DARK", 1),
       tile(3, 0, 0, 70, "BRIGHT", 0), tile(4, 200, 0, 20, "BRIGHT", 1) >>
CatalogB ==
    << tile(1, 200, 0, -20, "GRAY", 1), tile(2, 105, 15, 80, "DARK", 1),
       tile(4, 115, 0, 10, "BRIGHT", 1) >>
Catalogs == {CatalogA, CatalogB}

\* Tile files of one row, over a grid of RA and HA, for the construction.
WideCatalogs ==
    { << tile(1, ra, ha, dec, "DARK", in) >> :
         ra \in {0, 10, 90, 180, 345, 350, 360}, ha \in {-30, -15, 0, 15, 25},
         dec \in {-20, 75}, in \in {0, 1} }

logEntry(id, st) == [TILEID |-> id, STATUS |-> st]

\* Logs of the night specification.
NightLogs ==
    { <<>>, <<logEntry(1, 2), logEntry(9, 2)>>,
      <<logEntry(2, 1), logEntry(4, 3), logEntry(1, 0)>> }

\* Logs of the log specification: every list of at most MaxLog entries naming
\* tiles 1, 2 or the unknown tile 9 with a status 0, 1 or 2.
LogEntries == {logEntry(id, st) : id \in {1, 2, 9}, st \in {0, 1, 2}}
Logs == UNION {[1..n -> LogEntries] : n \in 0..MaxLog}

\* Arguments of Weather.__init__.
WeatherArgs ==
    {[num_nights |-> n, steps_per_day |-> 2, t0 |-> 0, closed |-> c] :
        n \in 0..MaxNights, c \in {{}, {1}}}

\* Query times: from a step before the table to a step past its end.
QueryTimes == (0 - TicksPerStep) .. ((Len(table) + 1) * TicksPerStep)
Queries == UNION {[1..n -> QueryTimes] : n \in {1, 2}}

-----------------------------------------------------------------------------
(***************************************************************************)
(* Specifications                                                          *)
(***************************************************************************)
noStats ==
    [MJDmoonrise |-> -1, MJDmoonset |-> -1, MJDetwi |-> -1, MJDmtwi |-> -1,
     MoonFrac |-> 0, MoonAlt |-> 0]

planIdle(cats) ==
    /\ tiledata \in cats
    /\ pc = "new"
    /\ tileID = <<>> /\ LSTmin = <<>> /\ LSTmax = <<>>
    /\ priority = <<>> /\ program = <<>> /\ status = <<>>
    /\ moonUp = "BRIGHT"
    /\ LST_dark1_begin = -1 /\ LST_dark1_end = -1
    /\ LST_dark2_begin = -1 /\ LST_dark2_end = -1
    /\ LST_dark_begin = NoAttr /\ LST_dark_end = NoAttr
    /\ day_stats = noStats
    /\ tiles_observed = <<>>
    /\ planList = <<>>
    /\ tilesTODO = 0

weatherIdle(args) ==
    /\ wpc = "new"
    /\ wargs \in args
    /\ table = <<>>
    /\ steps_per_day = 0
    /\ time = <<>>
    /\ outcome = "none"
    /\ rows = <<>>

noWeather == {[num_nights |-> 0, steps_per_day |-> 2, t0 |-> 0, closed |-> {}]}

\* The planner over every night, with a few logs.
Init == planIdle(Catalogs) /\ weatherIdle(noWeather)
PlanNight == \E d \in NightStats, log \in NightLogs : afternoonPlan(d, log)
Next == surveyPlanInit \/ PlanNight
Spec == Init /\ [][Next]_vars

\* The planner over every log, on one night and one tile file.
PlanLog == \E d \in LogNights, log \in Logs : afternoonPlan(d, log)
InitLog == planIdle({CatalogA}) /\ weatherIdle(noWeather)
NextLog == surveyPlanInit \/ PlanLog
SpecLog == InitLog /\ [][NextLog]_vars

\* The construction of the planner over a grid of tiles.
InitWide == planIdle(WideCatalogs) /\ weatherIdle(noWeather)
NextWide == surveyPlanInit
SpecWide == InitWide /\ [][NextWide]_vars

\* The weather simulator.
InitWeather == planIdle({<<>>}) /\ weatherIdle(WeatherArgs)
Get == \E t \in Queries : get(t)
NextWeather == WeatherInit \/ Get
SpecWeather == InitWeather /\ [][NextWeather]_vars

-----------------------------------------------------------------------------
(***************************************************************************)
(* Properties of the planner                                               *)
(***************************************************************************)
inPlan(i) == \E k \in DOMAIN planList : planList[k].TILEID = tileID[i]

\* C1: no plan holds a tile whose status, after the call's status update, is
\* 2 or more.
C1_NoCompletedTileInPlan ==
    pc = "planned" =>
        \A k \in DOMAIN planList :
            /\ planList[k].STATUS < 2
            /\ \A i \in DOMAIN tileID :
                   tileID[i] = planList[k].TILEID => status[i] < 2

\* A completed tile that the darkness rule alone would admit is left out of a
\* plan that holds other tiles.
C1_Witness ==
    /\ pc = "planned"
    /\ planList /= <<>>
    /\ \E i \in DOMAIN tileID :
           status[i] >= 2 /\ eligibleAnyStatus(self, status, i) /\ ~inPlan(i)

\* C2: a tile is in the plan exactly if its status is below 2 and either it is
\* a DARK tile with both window bounds dark, or it is not a DARK tile and one
\* of its window bounds is not dark; the returned count is the number of such
\* tiles.
C2_PlanIsEligibleSet ==
    pc = "planned" =>
        LET minDark(i) == isItDark(self, LSTmin[i]) = "DARK"
            maxDark(i) == isItDark(self, LSTmax[i]) = "DARK"
            rule(i) == /\ status[i] < 2
                       /\ IF program[i] = "DARK"
                          THEN minDark(i) /\ maxDark(i)
                          ELSE ~minDark(i) \/ ~maxDark(i)
        IN /\ \A i \in DOMAIN tileID : inPlan(i) <=> rule(i)
           /\ tilesTODO = Cardinality({i \in DOMAIN tileID : rule(i)})

\* A plan that holds a tile outside the DARK program with one bound dark, and
\* leaves out an open DARK tile with only one bound dark.
C2_Witness ==
    /\ pc = "planned"
    /\ \E i \in DOMAIN tileID :
           /\ program[i] /= "DARK" /\ inPlan(i)
           /\ isItDark(self, LSTmin[i]) = "DARK" /\ isItDark(self, LSTmax[i]) /= "DARK"
    /\ \E i \in DOMAIN tileID :
           /\ program[i] = "DARK" /\ status[i] < 2 /\ ~inPlan(i)
           /\ isItDark(self, LSTmin[i]) = "DARK" /\ isItDark(self, LSTmax[i]) /= "DARK"

\* C3: the priority does not increase from one row of the plan to the next.
C3_PriorityNonIncreasing ==
    pc = "planned" =>
        \A k \in 1..(Len(planList) - 1) :
            planList[k].PRIORITY >= planList[k + 1].PRIORITY

\* A plan of three rows with a tie and a strict step, whose first row is not
\* the first tile of the catalog.
C3_Witness ==
    /\ pc = "planned"
    /\ Len(planList) = 3
    /\ planList[1].PRIORITY > planList[2].PRIORITY
    /\ planList[2].PRIORITY = planList[3].PRIORITY
    /\ planList[1].TILEID /= tileID[1]

noMoon(d) == d.MJDmoonrise < 0 /\ d.MJDmoonset < 0

\* C4: after a night on which the moon neither rises nor sets, the first dark
\* window is [mjd2lst(evening twilight), mjd2lst(morning twilight)] and the
\* second window is absent.
C4_NoMoonWindow ==
    (pc = "planned" /\ noMoon(day_stats)) =>
        /\ LST_dark1_begin = mjd2lst(day_stats.MJDetwi)
        /\ LST_dark1_end = mjd2lst(day_stats.MJDmtwi)
        /\ LST_dark2_begin = -1
        /\ LST_dark2_end = -1

windowState(s) ==
    <<s.LST_dark1_begin, s.LST_dark1_end, s.LST_dark2_begin, s.LST_dark2_end, s.moonUp>>

\* C5: the window state after a call is the one a newly built planner computes
\* from the same night stats: nothing of an earlier night is left in it.
C5_NightScoped ==
    pc = "planned" => windowState(self) = windowState(getDarkTimes(newSelf, day_stats))

\* C6: no call lowers the status of a tile.
C6_StatusMonotone ==
    [][\A i \in DOMAIN status : i \in DOMAIN status' => status'[i] >= status[i]]_vars

\* The log of the call reports for no tile a status below the one it had.
logNotBelow(log, st) ==
    \A k \in DOMAIN log : \A i \in DOMAIN st :
        tileID[i] = log[k].TILEID => log[k].STATUS >= st[i]

\* C6, amended: a call whose log reports for no tile a status below the one
\* the tile had before the call lowers the status of no tile.
C6_MonotoneUnderMonotoneLog ==
    [][(pc' = "planned" /\ logNotBelow(tiles_observed', status)) =>
           \A i \in DOMAIN status : status'[i] >= status[i]]_vars

\* A tile at status 2 after a log that raised it in two entries, while another
\* tile keeps a status above 0 that the log does not name.
C6_Witness ==
    /\ pc = "planned"
    /\ \E i \in DOMAIN tileID :
           /\ status[i] = 2
           /\ tiles_observed = <<logEntry(tileID[i], 1), logEntry(tileID[i], 2)>>
    /\ \E j \in DOMAIN tileID : status[j] = 1

\* Entries of the log that name tile i.
naming(log, i) == {k \in DOMAIN log : log[k].TILEID = tileID[i]}
lastOf(S) == CHOOSE k \in S : \A m \in S : m <= k

\* C7: after a call every tile the log names has the status of its last entry,
\* every other tile keeps its status, and an entry with an unknown id changes
\* nothing.
C7_UpdateFrame ==
    [][pc' = "planned" =>
           /\ DOMAIN status' = DOMAIN status
           /\ \A i \in DOMAIN status :
                  status'[i] = IF naming(tiles_observed', i) = {}
                               THEN status[i]
                               ELSE tiles_observed'[lastOf(naming(tiles_observed', i))].STATUS]_vars

\* A log that names one tile twice with different statuses and an unknown id,
\* after which the tile has the last status and an unnamed tile keeps a status
\* above 0.
C7_Witness ==
    /\ pc = "planned"
    /\ Len(tiles_observed) = 2
    /\ \E i \in DOMAIN tileID :
           /\ naming(tiles_observed, i) = {1, 2}
           /\ tiles_observed[1].STATUS > tiles_observed[2].STATUS
           /\ status[i] = tiles_observed[2].STATUS
    /\ \E j \in DOMAIN tileID : naming(tiles_observed, j) = {} /\ status[j] > 0

risesOnly(d) == d.MJDmoonrise > 0 /\ d.MJDmoonset < 0
setsOnly(d) == d.MJDmoonrise < 0 /\ d.MJDmoonset > 0

\* C11: after a night on which the moon rises but does not set, the one dark
\* window is [mjd2lst(evening twilight), mjd2lst(moonrise)], or absent if the
\* moon rises before evening twilight; after a night on which it sets but does
\* not rise, the one dark window is [mjd2lst(moonset), mjd2lst(morning
\* twilight)], or absent if it does not set before morning twilight; either
\* way the second window is absent, and no bound comes from the sentinel.
C11_OneMoonEvent ==
    pc = "planned" =>
        /\ risesOnly(day_stats) =>
               /\ <<LST_dark1_begin, LST_dark1_end>> =
                      IF day_stats.MJDmoonrise < day_stats.MJDetwi
                      THEN <<-1, -1>>
                      ELSE <<mjd2lst(day_stats.MJDetwi), mjd2lst(day_stats.MJDmoonrise)>>
               /\ <<LST_dark2_begin, LST_dark2_end>> = <<-1, -1>>
        /\ setsOnly(day_stats) =>
               /\ <<LST_dark1_begin, LST_dark1_end>> =
                      IF day_stats.MJDmoonset < day_stats.MJDmtwi
                      THEN <<mjd2lst(day_stats.MJDmoonset), mjd2lst(day_stats.MJDmtwi)>>
                      ELSE <<-1, -1>>
               /\ <<LST_dark2_begin, LST_dark2_end>> = <<-1, -1>>

\* C10: after the construction every LSTmin and LSTmax lies in [0, 360).
C10_LSTNormalized ==
    pc /= "new" =>
        \A i \in DOMAIN tileID :
            /\ 0 <= LSTmin[i] /\ LSTmin[i] < 360
            /\ 0 <= LSTmax[i] /\ LSTmax[i] < 360

-----------------------------------------------------------------------------
(***************************************************************************)
(* Properties of the weather simulator                                     *)
(***************************************************************************)
\* C8: a query either fails with the range error, when some index lies
\* outside 0 .. Len(table), or returns for every query time the table row at
\* its index.
C8_TwoOutcomes ==
    outcome /= "none" =>
        IF \E k \in DOMAIN time : offset(time[k]) < 0 \/ offset(time[k]) > Len(table)
        THEN outcome = "ValueError"
        ELSE /\ outcome = "rows"
             /\ Len(rows) = Len(time)
             /\ \A k \in DOMAIN time :
                    /\ offset(time[k]) + 1 \in DOMAIN table
                    /\ rows[k] = table[offset(time[k]) + 1]

dist(a, b) == IF a >= b THEN a - b ELSE b - a

\* Row i is strictly within half a time step of t.
near(t, i) == 2 * dist(t, table[i].mjd) < TicksPerStep

\* C9: a query all of whose times lie strictly within half a time step of a
\* tabulated row returns, for each time, that row.
C9_NearestRow ==
    (outcome /= "none" /\ \A k \in DOMAIN time : \E i \in DOMAIN table : near(time[k], i)) =>
        /\ outcome = "rows"
        /\ \A k \in DOMAIN time : \A i \in DOMAIN table :
               near(time[k], i) => rows[k] = table[i]

\* A query of a time just before the first row and a time just after the last
\* row, answered with these two rows.
C9_Witness ==
    /\ outcome = "rows"
    /\ Len(table) >= 2
    /\ time = <<table[1].mjd - 1, table[Len(table)].mjd + 1>>
    /\ rows = <<table[1], table[Len(table)]>>

=============================================================================
